---------------------------- MODULE Spec2Model ----------------------------
(***************************************************************************)
(* Model of the theme generator of themify                                 *)
(* (src/cli/src/generators/themeGenerator.ts).                             *)
(*                                                                         *)
(* Numbers.  The source computes in floating point; the model computes in  *)
(* fixed point.  A fraction in [0,1] (hue, saturation, lightness, area,    *)
(* intensity) is the integer fraction * Scale.  A value emitted in an      *)
(* hsl() string keeps that unit: degrees * Scale for H, percent * Scale    *)
(* for S and L.  red, green and blue are the integers 0..255.  Sums of     *)
(* weighted channels are kept as integers: the plain weighted sum          *)
(* 0.2126 r/255 + 0.7152 g/255 + 0.0722 b/255 is represented by            *)
(* 2126 r + 7152 g + 722 b  (that is, luminance * 255 * Scale).            *)
(*                                                                         *)
(* Strings.  A value of the theme is a record that holds the parts of the  *)
(* string the source formats: hsl(H, S%, L%), a hex literal, or a rem      *)
(* length.                                                                 *)
(***************************************************************************)
EXTENDS Integers, Sequences, FiniteSets, TLC

VARIABLES
    given,               \* whether the caller passes a list at all (colors is not undefined)
    colors,              \* the caller's list of candidates
    cursor,              \* next entry of Pool the caller may append
    pc,                  \* "input": the caller builds the list; "returned": generateTheme has returned
    validColors,         \* generateTheme's local validColors at return
    sortedColors,        \* generateTheme's local sortedColors at return (the working set)
    colorsByLuminance,   \* generateTheme's local colorsByLuminance at return
    colorsBySaturation,  \* generateTheme's local colorsBySaturation at return
    isDarkTheme,         \* the local isDarkTheme of the function that built the theme
    roles,               \* the colour objects the function derived for the roles
    theme,               \* the value the last call returned
    prevTheme,           \* the value the call before it returned (same list)
    ecPc,                \* ensureContrast: "call", "loop" (at the while test), "done"; "idle": no call
    ecColor,             \* ensureContrast's argument color
    ecBackground,        \* ensureContrast's argument background
    ecMinContrast,       \* ensureContrast's argument minContrast, in thousandths
    adjustedColor,       \* ensureContrast's local adjustedColor
    contrast,            \* ensureContrast's local contrast, in thousandths
    attempts,            \* ensureContrast's local attempts
    ecReturn,            \* the value ensureContrast returned
    publicDir,           \* the folder public: "absent", "empty" (no supported image) or "images"
    globalsCss,          \* the file at cssPath
    backupFile,          \* the file at `${cssPath}.backup`
    mainPc,              \* the statement main is at; "end": main has returned; "idle": not run
    ugPc,                \* the await updateGlobalsCss is at; "idle": not called; "done": resolved
    cssContent,          \* updateGlobalsCss's local cssContent
    colorVariables,      \* updateGlobalsCss's argument colorVariables
    successPrinted,      \* main has printed "Theme updated successfully!"
    exited,              \* the process has exited
    exitCode,            \* its exit status
    runs,                \* the runs of the tool that updated the stylesheet
    firstContent         \* the stylesheet's content before the first run

themeVars == << given, colors, cursor, pc, validColors, sortedColors, colorsByLuminance,
                colorsBySaturation, isDarkTheme, roles, theme, prevTheme >>

contrastVars == << ecPc, ecColor, ecBackground, ecMinContrast, adjustedColor,
                   contrast, attempts, ecReturn >>

cliVars == << publicDir, globalsCss, backupFile, mainPc, ugPc, cssContent,
              colorVariables, successPrinted, exited, exitCode, runs, firstContent >>

vars == << themeVars, contrastVars, cliVars >>

(***************************************************************************)
(* Units                                                                   *)
(***************************************************************************)
Scale == 100 * 100

\* The fraction n/d in model units.
Frac(n, d) == (n * Scale) \div d

Min(a, b) == IF a < b THEN a ELSE b
Max(a, b) == IF a > b THEN a ELSE b

(***************************************************************************)
(* Candidate colours (interface Color).  isNull: the array element is      *)
(* null; nonNumeric: the fields among hue, saturation, lightness whose     *)
(* typeof is not "number"; hueNotFinite: hue is NaN or an infinity, whose  *)
(* typeof is "number".                                                     *)
(***************************************************************************)
Color(hex, r, g, b, h, s, l, a) ==
    [ isNull |-> FALSE, nonNumeric |-> {}, hueNotFinite |-> FALSE, hex |-> hex,
      red |-> r, green |-> g, blue |-> b,
      hue |-> h, intensity |-> ((r + g + b) * Scale) \div (3 * 255),
      lightness |-> l, saturation |-> s, area |-> a ]

NullColor == [ Color("", 0, 0, 0, 0, 0, 0, 0) EXCEPT !.isNull = TRUE ]

WithNonNumeric(color, fields) == [ color EXCEPT !.nonNumeric = fields ]

\* The candidate with hue NaN (or an infinity).
WithHueNotFinite(color) == [ color EXCEPT !.hueNotFinite = TRUE ]

\* What a template literal prints for NaN.
NaN == "NaN"

(***************************************************************************)
(* The values of a theme                                                   *)
(***************************************************************************)
Hsl(h, s, l) == [ fmt |-> "hsl", h |-> h, s |-> s, l |-> l ]
Hex(x) == [ fmt |-> "hex", hex |-> x ]
Rem(milli) == [ fmt |-> "rem", milli |-> milli ]

ColorKeys ==
    { "--background", "--foreground", "--card", "--card-foreground",
      "--popover", "--popover-foreground", "--primary", "--primary-foreground",
      "--secondary", "--secondary-foreground", "--accent", "--accent-foreground",
      "--muted", "--muted-foreground", "--destructive", "--destructive-foreground",
      "--border", "--input", "--ring" }

NoTheme == << >>
NoRoles == << >>

(***************************************************************************)
(* JavaScript arithmetic                                                   *)
(***************************************************************************)
\* a % n of JavaScript for n > 0: the result takes the sign of the dividend.
JsMod(a, n) == IF a >= 0 THEN a % n ELSE -((-a) % n)

\* Array.prototype.sort(Cmp) on a copy: a stable sort, computed by insertion.
\* An element goes before the first element it compares strictly less than.
InsertSorted(sorted, x, Cmp(_, _)) ==
    LET after == { i \in 1..Len(sorted) : Cmp(x, sorted[i]) < 0 }
        pos == IF after = {} THEN Len(sorted) + 1
               ELSE CHOOSE i \in after : \A j \in after : i <= j
    IN  SubSeq(sorted, 1, pos - 1) \o << x >> \o SubSeq(sorted, pos, Len(sorted))

SortWith(seq, Cmp(_, _)) ==
    LET ins[k \in 0..Len(seq)] ==
            IF k = 0 THEN << >> ELSE InsertSorted(ins[k - 1], seq[k], Cmp)
    IN  ins[Len(seq)]

(***************************************************************************)
(* themeGenerator.ts, helpers                                              *)
(***************************************************************************)
\* The adjustments argument of adjustHSL; an absent field is 0 (x || 0).
\* hue is a fraction of a turn, saturation and lightness are percent points.
Adjust(h, s, l) == [ hue |-> h, saturation |-> s, lightness |-> l ]
NoAdjust == Adjust(0, 0, 0)

\* Variant: saturation and lightness are not clamped.
adjustHSL_unclamped(color, adjustments) ==
    Hsl(JsMod(color.hue + adjustments.hue, Scale) * 360,
        color.saturation * 100 + adjustments.saturation * Scale,
        color.lightness * 100 + adjustments.lightness * Scale)

\* ((NaN + x) % 1) * 360 and ((Infinity + x) % 1) * 360 are NaN.
adjustHSL(color, adjustments) ==
    LET h == IF color.hueNotFinite
             THEN NaN
             ELSE JsMod(color.hue + adjustments.hue, Scale) * 360
        s == Max(0, Min(100 * Scale,
                        color.saturation * 100 + adjustments.saturation * Scale))
        l == Max(0, Min(100 * Scale,
                        color.lightness * 100 + adjustments.lightness * Scale))
    IN  Hsl(h, s, l)

\* 0.2126 * (red / 255) + 0.7152 * (green / 255) + 0.0722 * (blue / 255),
\* times 255 * Scale: the luminance without gamma decoding.
PlainLuminance(color) == 2126 * color.red + 7152 * color.green + 722 * color.blue

\* Variant: the comparison is turned round.
getReadableTextColor_inverted(bgColor) ==
    IF 2 * PlainLuminance(bgColor) < 255 * Scale
    THEN Hsl(0, 0, 0)
    ELSE Hsl(0, 0, 100 * Scale)

\* luminance > 0.5 ? black : white
getReadableTextColor(bgColor) ==
    IF 2 * PlainLuminance(bgColor) > 255 * Scale
    THEN Hsl(0, 0, 0)
    ELSE Hsl(0, 0, 100 * Scale)

(***************************************************************************)
(* calculateLuminance: the WCAG relative luminance                         *)
(***************************************************************************)
\* c <= 0.03928 ? c / 12.92 : Math.pow((c + 0.055) / 1.055, 2.4) for
\* c = n / 255, n = 0..255, times 10^5 and rounded; entry n + 1 is for n.
GammaDecoded ==
    << 0, 30, 61, 91, 121, 152, 182, 212,
       243, 273, 304, 335, 368, 402, 439, 478,
       518, 561, 605, 651, 700, 750, 802, 857,
       913, 972, 1033, 1096, 1161, 1229, 1298, 1370,
       1444, 1521, 1600, 1681, 1764, 1850, 1938, 2029,
       2122, 2217, 2315, 2416, 2519, 2624, 2732, 2843,
       2956, 3071, 3190, 3310, 3434, 3560, 3689, 3820,
       3955, 4092, 4231, 4374, 4519, 4667, 4817, 4971,
       5127, 5286, 5448, 5613, 5781, 5951, 6125, 6301,
       6480, 6663, 6848, 7036, 7227, 7421, 7619, 7819,
       8022, 8228, 8438, 8650, 8866, 9084, 9306, 9531,
       9759, 9990, 10224, 10462, 10702, 10946, 11193, 11444,
       11697, 11954, 12214, 12477, 12744, 13014, 13287, 13563,
       13843, 14126, 14413, 14703, 14996, 15293, 15593, 15896,
       16203, 16513, 16827, 17144, 17465, 17789, 18116, 18447,
       18782, 19120, 19462, 19807, 20156, 20508, 20864, 21223,
       21586, 21953, 22323, 22697, 23074, 23455, 23840, 24228,
       24620, 25016, 25415, 25818, 26225, 26636, 27050, 27468,
       27889, 28315, 28744, 29177, 29614, 30054, 30499, 30947,
       31399, 31855, 32314, 32778, 33245, 33716, 34191, 34670,
       35153, 35640, 36131, 36625, 37124, 37626, 38133, 38643,
       39157, 39676, 40198, 40724, 41254, 41789, 42327, 42869,
       43415, 43966, 44520, 45079, 45641, 46208, 46778, 47353,
       47932, 48515, 49102, 49693, 50289, 50888, 51492, 52100,
       52712, 53328, 53948, 54572, 55201, 55834, 56471, 57112,
       57758, 58408, 59062, 59720, 60383, 61050, 61721, 62396,
       63076, 63760, 64448, 65141, 65837, 66539, 67244, 67954,
       68669, 69387, 70110, 70838, 71569, 72306, 73046, 73791,
       74540, 75294, 76052, 76815, 77582, 78354, 79130, 79910,
       80695, 81485, 82279, 83077, 83880, 84687, 85499, 86316,
       87137, 87962, 88792, 89627, 90466, 91310, 92158, 93011,
       93869, 94731, 95597, 96469, 97345, 98225, 99110, 100000 >>

\* WCAG.LUMINANCE.RED * R + WCAG.LUMINANCE.GREEN * G + WCAG.LUMINANCE.BLUE * B,
\* times Scale * 10^5.
calculateLuminance(color) ==
    2126 * GammaDecoded[color.red + 1] + 7152 * GammaDecoded[color.green + 1]
        + 722 * GammaDecoded[color.blue + 1]

(***************************************************************************)
(* Contrast.  Luminances are in millionths here, contrast ratios in        *)
(* thousandths (rounded down).                                             *)
(***************************************************************************)
\* The getLuminance of getContrastRatio: the gamma-decoded channels weighted
\* by 0.2126, 0.7152 and 0.0722.
getLuminance(color) ==
    (2126 * GammaDecoded[color.red + 1] + 7152 * GammaDecoded[color.green + 1]
         + 722 * GammaDecoded[color.blue + 1]) \div 1000

\* Variant: the two luminances are divided in argument order.
getContrastRatio_unordered(color1, color2) ==
    ((getLuminance(color1) + 50000) * 1000) \div (getLuminance(color2) + 50000)

\* (lighter + 0.05) / (darker + 0.05)
getContrastRatio(color1, color2) ==
    LET l1 == getLuminance(color1)
        l2 == getLuminance(color2)
        lighter == Max(l1, l2)
        darker == Min(l1, l2)
    IN  ((lighter + 50000) * 1000) \div (darker + 50000)

calculateContrastRatio(color1Luminance, color2Luminance) ==
    LET lighter == Max(color1Luminance, color2Luminance)
        darker == Min(color1Luminance, color2Luminance)
    IN  ((lighter + 50000) * 1000) \div (darker + 50000)

maxAttempts == 20

\* Variant: the test on attempts is <=.
LoopContinues_oneMore(c, minContrast, n) == c < minContrast /\ n <= maxAttempts

\* while (contrast < minContrast && attempts < maxAttempts)
LoopContinues(c, minContrast, n) == c < minContrast /\ n < maxAttempts

\* background.lightness > 0.5 ? -5 : 5
lightnessAdjustment(background) ==
    IF background.lightness > Frac(5, 10) THEN -5 ELSE 5

\* Variant: the lightness is not kept within 0.05 and 0.95.
AdjustLightness_unclamped(adjusted, background) ==
    [ adjusted EXCEPT
        !.lightness = adjusted.lightness + lightnessAdjustment(background) * Frac(1, 100) ]

\* The loop body's assignment to adjustedColor.
AdjustLightness(adjusted, background) ==
    [ adjusted EXCEPT
        !.lightness =
            Max(Frac(5, 100),
                Min(Frac(95, 100),
                    adjusted.lightness + lightnessAdjustment(background) * Frac(1, 100))) ]

createFallbackColor ==
    [ Color("#6366f1", 99, 102, 241, Frac(6666, 10000), Frac(8, 10), Frac(6, 10), Scale)
        EXCEPT !.intensity = Frac(5, 10) ]

\* `${(Math.random() * 0.5 + 0.3).toFixed(3)}rem`; random is the draw in
\* thousandths, the result is in thousandths of a rem.
Radius(random) == Rem((random * 5 + 3000 + 5) \div 10)

(***************************************************************************)
(* generateThemeFromSingleColor (the theme built from the fallback colour) *)
(***************************************************************************)
SingleRoles(color) ==
    LET dark == color.lightness < Frac(5, 10)
        bg == IF dark
              THEN [ color EXCEPT !.lightness = Frac(1, 10), !.saturation = Frac(1, 10) ]
              ELSE [ color EXCEPT !.lightness = Frac(98, 100), !.saturation = Frac(5, 100) ]
    IN  [ bgColor |-> bg,
          fgColor |-> IF dark
                      THEN [ color EXCEPT !.lightness = Frac(9, 10), !.saturation = Frac(1, 10) ]
                      ELSE [ color EXCEPT !.lightness = Frac(1, 10), !.saturation = Frac(1, 10) ],
          primaryColor |->
              [ color EXCEPT !.saturation = Min(Scale, (color.saturation * 12) \div 10) ],
          secondaryColor |->
              [ color EXCEPT !.hue = JsMod(color.hue + Frac(1, 10), Scale),
                             !.saturation = Max(Frac(2, 10), (color.saturation * 7) \div 10) ],
          accentColor |->
              [ color EXCEPT !.hue = JsMod(color.hue + Frac(33, 100), Scale),
                             !.saturation = Min(Scale, (color.saturation * 11) \div 10) ],
          mutedColor |->
              [ color EXCEPT !.saturation = Min(Frac(3, 10), (color.saturation * 5) \div 10),
                             !.lightness = IF dark THEN Frac(2, 10) ELSE Frac(8, 10) ],
          borderColor |->
              [ bg EXCEPT !.lightness = IF dark THEN Frac(25, 100) ELSE Frac(75, 100) ] ]

\* Variant: the red of generateCSSVariables.
SingleDestructive_red == Hex("#ff0000")

SingleDestructive == Hex("#ff4444")

SingleTheme(r, dark, random) ==
    ("--background" :> adjustHSL(r.bgColor, NoAdjust)) @@
    ("--foreground" :> adjustHSL(r.fgColor, NoAdjust)) @@
    ("--card" :> adjustHSL(r.bgColor, Adjust(0, 0, IF dark THEN 5 ELSE -5))) @@
    ("--card-foreground" :> adjustHSL(r.fgColor, NoAdjust)) @@
    ("--popover" :> adjustHSL(r.bgColor, Adjust(0, 0, IF dark THEN 8 ELSE -8))) @@
    ("--popover-foreground" :> adjustHSL(r.fgColor, NoAdjust)) @@
    ("--primary" :> adjustHSL(r.primaryColor, NoAdjust)) @@
    ("--primary-foreground" :> IF dark THEN Hex("#ffffff") ELSE Hex("#000000")) @@
    ("--secondary" :> adjustHSL(r.secondaryColor, NoAdjust)) @@
    ("--secondary-foreground" :> IF dark THEN Hex("#ffffff") ELSE Hex("#000000")) @@
    ("--accent" :> adjustHSL(r.accentColor, NoAdjust)) @@
    ("--accent-foreground" :> IF dark THEN Hex("#ffffff") ELSE Hex("#000000")) @@
    ("--muted" :> adjustHSL(r.mutedColor, NoAdjust)) @@
    ("--muted-foreground" :> IF dark THEN Hex("#a1a1aa") ELSE Hex("#71717a")) @@
    ("--destructive" :> SingleDestructive) @@
    ("--destructive-foreground" :> Hex("#ffffff")) @@
    ("--border" :> adjustHSL(r.borderColor, NoAdjust)) @@
    ("--input" :> adjustHSL(r.borderColor, Adjust(0, 0, IF dark THEN 5 ELSE -5))) @@
    ("--ring" :> adjustHSL(r.primaryColor, Adjust(0, 10, IF dark THEN 10 ELSE -10))) @@
    ("--radius" :> Radius(random))

\* The frame of a call at its return: the returned value and the locals.
generateThemeFromSingleColor(color, random) ==
    LET dark == color.lightness < Frac(5, 10)
        r == SingleRoles(color)
    IN  [ ret |-> SingleTheme(r, dark, random),
          validColors |-> << >>, sortedColors |-> << >>,
          colorsByLuminance |-> << >>, colorsBySaturation |-> << >>,
          isDarkTheme |-> dark, roles |-> r ]

(***************************************************************************)
(* generateTheme                                                           *)
(***************************************************************************)
\* color && typeof color.hue === "number" && typeof color.saturation ===
\* "number" && typeof color.lightness === "number"
IsValid(color) ==
    /\ ~color.isNull
    /\ "hue" \notin color.nonNumeric
    /\ "saturation" \notin color.nonNumeric
    /\ "lightness" \notin color.nonNumeric

FilterValid(cs) == SelectSeq(cs, IsValid)

CompareArea(a, b) == b.area - a.area

\* Variant: slice(0, 6) without the sort by area.
MostProminent_unsorted(valid) == SubSeq(valid, 1, Min(6, Len(valid)))

\* [...validColors].sort(by area).slice(0, Math.min(6, validColors.length))
MostProminent(valid) ==
    SubSeq(SortWith(valid, CompareArea), 1, Min(6, Len(valid)))

\* Variant: the variation keeps the hue of the base colour.
Variation_sameHue(baseColor, n) ==
    [ baseColor EXCEPT
        !.lightness = Frac(3, 10) + JsMod(n * Frac(1, 10), Frac(7, 10)) ]

\* The variation pushed when sortedColors.length is n.
Variation(baseColor, n) ==
    [ baseColor EXCEPT
        !.hue = JsMod(baseColor.hue + n * Frac(1, 10), Scale),
        !.lightness = Frac(3, 10) + JsMod(n * Frac(1, 10), Frac(7, 10)) ]

\* Variant: the loop condition is <= 6.
PadToSix_seven(sorted) ==
    sorted \o [ i \in 1..(7 - Len(sorted)) |-> Variation(sorted[1], Len(sorted) + i - 1) ]

\* while (sortedColors.length < 6) sortedColors.push(variation of sortedColors[0])
PadToSix(sorted) ==
    sorted \o [ i \in 1..(6 - Len(sorted)) |-> Variation(sorted[1], Len(sorted) + i - 1) ]

CompareLuminance(a, b) == PlainLuminance(a) - PlainLuminance(b)

\* Variant: members of equal luminance come out in reverse order.
SortByLuminance_tiesReversed(sorted) ==
    SortWith([ i \in 1..Len(sorted) |-> sorted[Len(sorted) + 1 - i] ], CompareLuminance)

SortByLuminance(sorted) == SortWith(sorted, CompareLuminance)

CompareSaturation(a, b) == b.saturation - a.saturation

SortBySaturation(sorted) == SortWith(sorted, CompareSaturation)

\* Variant: the polarity is taken from the darkest member.
IsDark_byLuminance(sorted) == SortByLuminance(sorted)[1].lightness < Frac(5, 10)

IsDark(sorted) == sorted[1].lightness < Frac(5, 10)

Darkened(color) ==
    [ color EXCEPT !.lightness = Max(Frac(5, 100), color.lightness - Frac(1, 10)) ]

Lightened(color) ==
    [ color EXCEPT !.lightness = Min(Frac(95, 100), color.lightness + Frac(1, 10)) ]

\* Variant: the background is taken one place from the end.
BgColor_middle(byLum, dark) == IF dark THEN Darkened(byLum[2]) ELSE Lightened(byLum[5])

BgColor(byLum, dark) == IF dark THEN Darkened(byLum[1]) ELSE Lightened(byLum[6])

FgColor(byLum, dark) == IF dark THEN Lightened(byLum[6]) ELSE Darkened(byLum[1])

PrimaryColor(bySat) == bySat[1]

\* Variant: the lightness is moved by 0.1 and not kept within 0.2 and 0.8.
SecondaryColor_unclamped(bySat, dark) ==
    IF dark
    THEN [ bySat[3] EXCEPT !.lightness = bySat[3].lightness + Frac(1, 10) ]
    ELSE [ bySat[3] EXCEPT !.lightness = bySat[3].lightness - Frac(1, 10) ]

SecondaryColor(bySat, dark) ==
    IF dark
    THEN [ bySat[3] EXCEPT !.lightness = Min(Frac(8, 10), bySat[3].lightness + Frac(1, 10)) ]
    ELSE [ bySat[3] EXCEPT !.lightness = Max(Frac(2, 10), bySat[3].lightness - Frac(1, 10)) ]

\* Variant: the hue is moved by a third of a turn, 1/3.
AccentColor_third(primary) ==
    [ primary EXCEPT !.hue = JsMod(primary.hue + Frac(1, 3), Scale),
                     !.saturation = Min(Scale, (primary.saturation * 11) \div 10) ]

AccentColor(primary) ==
    [ primary EXCEPT !.hue = JsMod(primary.hue + Frac(33, 100), Scale),
                     !.saturation = Min(Scale, (primary.saturation * 11) \div 10) ]

MutedColor(byLum, dark) ==
    LET src == byLum[IF dark THEN 2 ELSE 5]
    IN  [ src EXCEPT !.saturation = Min(Frac(3, 10), src.saturation) ]

\* Variant: the lightness is moved by 0.15 and not stopped at 0.5.
BorderColor_unbounded(bg, dark) ==
    [ bg EXCEPT !.lightness = IF dark
                              THEN bg.lightness + Frac(15, 100)
                              ELSE bg.lightness - Frac(15, 100) ]

BorderColor(bg, dark) ==
    [ bg EXCEPT !.lightness = IF dark
                              THEN Min(Frac(5, 10), bg.lightness + Frac(15, 100))
                              ELSE Max(Frac(5, 10), bg.lightness - Frac(15, 100)) ]

\* Variant: the accent colour takes the red, green and blue of the
\* background instead of keeping those of the primary colour.
DeriveRoles_accentRgb(byLum, bySat, dark) ==
    LET bg == BgColor(byLum, dark)
        primary == PrimaryColor(bySat)
    IN  [ bgColor |-> bg,
          fgColor |-> FgColor(byLum, dark),
          primaryColor |-> primary,
          secondaryColor |-> SecondaryColor(bySat, dark),
          accentColor |-> [ AccentColor(primary) EXCEPT !.red = bg.red,
                                                        !.green = bg.green,
                                                        !.blue = bg.blue ],
          mutedColor |-> MutedColor(byLum, dark),
          borderColor |-> BorderColor(bg, dark) ]

DeriveRoles(byLum, bySat, dark) ==
    LET bg == BgColor(byLum, dark)
        primary == PrimaryColor(bySat)
    IN  [ bgColor |-> bg,
          fgColor |-> FgColor(byLum, dark),
          primaryColor |-> primary,
          secondaryColor |-> SecondaryColor(bySat, dark),
          accentColor |-> AccentColor(primary),
          mutedColor |-> MutedColor(byLum, dark),
          borderColor |-> BorderColor(bg, dark) ]

Destructive == Hex("#ff4444")

DestructiveForeground == Hex("#ffffff")

\* The object literal generateTheme returns.
BuildTheme(r, dark, random) ==
    ("--background" :> adjustHSL(r.bgColor, NoAdjust)) @@
    ("--foreground" :> adjustHSL(r.fgColor, NoAdjust)) @@
    ("--card" :> adjustHSL(r.bgColor, Adjust(0, 0, IF dark THEN 5 ELSE -5))) @@
    ("--card-foreground" :> adjustHSL(r.fgColor, NoAdjust)) @@
    ("--popover" :> adjustHSL(r.bgColor, Adjust(0, 0, IF dark THEN 8 ELSE -8))) @@
    ("--popover-foreground" :> adjustHSL(r.fgColor, NoAdjust)) @@
    ("--primary" :> adjustHSL(r.primaryColor, NoAdjust)) @@
    ("--primary-foreground" :> getReadableTextColor(r.primaryColor)) @@
    ("--secondary" :> adjustHSL(r.secondaryColor, NoAdjust)) @@
    ("--secondary-foreground" :> getReadableTextColor(r.secondaryColor)) @@
    ("--accent" :> adjustHSL(r.accentColor, NoAdjust)) @@
    ("--accent-foreground" :> getReadableTextColor(r.accentColor)) @@
    ("--muted" :> adjustHSL(r.mutedColor, NoAdjust)) @@
    ("--muted-foreground" :> adjustHSL(r.fgColor, Adjust(0, 0, IF dark THEN -15 ELSE 15))) @@
    ("--destructive" :> Destructive) @@
    ("--destructive-foreground" :> DestructiveForeground) @@
    ("--border" :> adjustHSL(r.borderColor, NoAdjust)) @@
    ("--input" :> adjustHSL(r.borderColor, Adjust(0, 0, IF dark THEN 5 ELSE -5))) @@
    ("--ring" :> adjustHSL(r.primaryColor, Adjust(0, 10, IF dark THEN 10 ELSE -10))) @@
    ("--radius" :> Radius(random))

\* The part of generateTheme after the two fallback returns.
ThemeFromValid(valid, random) ==
    LET sorted == PadToSix(MostProminent(valid))
        byLum == SortByLuminance(sorted)
        bySat == SortBySaturation(sorted)
        dark == IsDark(sorted)
        r == DeriveRoles(byLum, bySat, dark)
    IN  [ ret |-> BuildTheme(r, dark, random),
          validColors |-> valid, sortedColors |-> sorted,
          colorsByLuminance |-> byLum, colorsBySaturation |-> bySat,
          isDarkTheme |-> dark, roles |-> r ]

\* Variant: the empty input raises, as generateCSSVariables does; nothing is
\* returned.
generateTheme_raisesOnEmpty(have, cs, random) ==
    IF ~have \/ Len(cs) = 0 \/ Len(FilterValid(cs)) = 0
    THEN [ ret |-> NoTheme, validColors |-> << >>, sortedColors |-> << >>,
           colorsByLuminance |-> << >>, colorsBySaturation |-> << >>,
           isDarkTheme |-> FALSE, roles |-> NoRoles ]
    ELSE ThemeFromValid(FilterValid(cs), random)

\* Variant: the random draw also reaches a colour.
generateTheme_randomRing(have, cs, random) ==
    LET frame == IF ~have \/ Len(cs) = 0 \/ Len(FilterValid(cs)) = 0
                 THEN generateThemeFromSingleColor(createFallbackColor, random)
                 ELSE ThemeFromValid(FilterValid(cs), random)
    IN  [ frame EXCEPT !.ret["--ring"] =
              adjustHSL(frame.roles.primaryColor, Adjust(0, 10, random \div 100)) ]

\* Variant: without a valid candidate the fallback colour takes the place
\* of the list and the derivation proceeds with it.
generateTheme_substitutesFallback(have, cs, random) ==
    IF ~have \/ Len(FilterValid(cs)) = 0
    THEN ThemeFromValid(<< createFallbackColor >>, random)
    ELSE ThemeFromValid(FilterValid(cs), random)

\* have: the argument is a list (not undefined); cs: the list.
\* The frame of the call at its return: the returned value and the locals.
generateTheme(have, cs, random) ==
    IF ~have \/ Len(cs) = 0
    THEN generateThemeFromSingleColor(createFallbackColor, random)
    ELSE IF Len(FilterValid(cs)) = 0
         THEN generateThemeFromSingleColor(createFallbackColor, random)
         ELSE ThemeFromValid(FilterValid(cs), random)

\* Variant: the sort by area is done on the argument itself.
ColorsAfter_sortedInPlace(have, cs) ==
    IF have /\ Len(FilterValid(cs)) > 0 THEN SortWith(cs, CompareArea) ELSE cs

\* The caller's list at the return of generateTheme(cs): filter() returns a
\* new array, sort() is applied to the copies [...validColors] and
\* [...sortedColors], push() to the copy, and every changed colour is an
\* object spread, so the argument and its elements are never written.
ColorsAfter(have, cs) == cs

(***************************************************************************)
(* The callers' inputs.  A caller appends entries of Pool in Pool order,   *)
(* skipping any it likes, up to MaxColors candidates.  The areas of Pool   *)
(* are not in sorted order and repeat, so that the sorts have work to do   *)
(* and ties to keep.                                                       *)
(***************************************************************************)
MaxColors == 7

Pool ==
    << Color("#1a0000", 26, 0, 0, 0, Scale, Frac(1, 10), Frac(5, 10)),
       Color("#e0e6ed", 224, 230, 237, Frac(6, 10), Frac(2, 10), Frac(9, 10), Frac(5, 10)),
       NullColor,
       Color("#4d4d4d", 77, 77, 77, 0, 0, Frac(302, 1000), Frac(3, 10)),
       Color("#ff0000", 255, 0, 0, 0, Scale, Frac(5, 10), Frac(2, 10)),
       WithNonNumeric(
           Color("#add8e6", 173, 216, 230, Frac(5409, 10000), Frac(533, 1000),
                 Frac(79, 100), Frac(9, 10)),
           {"hue"}),
       Color("#add8e6", 173, 216, 230, Frac(5409, 10000), Frac(533, 1000),
             Frac(79, 100), Frac(3, 10)),
       Color("#140008", 20, 0, 8, Frac(9333, 10000), Scale, Frac(39, 1000), Frac(25, 100)),
       Color("#ffff00", 255, 255, 0, Frac(1667, 10000), Scale, Frac(5, 10), Frac(6, 10)),
       Color("#6b8e23", 107, 142, 35, Frac(2212, 10000), Frac(605, 1000),
             Frac(347, 1000), Frac(2, 10)),
       Color("#1a0000", 26, 0, 0, 0, Scale, Frac(1, 10), Frac(5, 10)) >>

\* The draws of Math.random(), in thousandths.
RandomDraws == { 0, 999 }

\* A file that does not exist, and a file with its content.
NoFile == [ exists |-> FALSE, content |-> << >> ]
File(content) == [ exists |-> TRUE, content |-> content ]

\* The command-line tool is not run.
CliIdle ==
    /\ publicDir = "absent"
    /\ globalsCss = NoFile
    /\ backupFile = NoFile
    /\ mainPc = "idle"
    /\ ugPc = "idle"
    /\ cssContent = << >>
    /\ colorVariables = NoTheme
    /\ successPrinted = FALSE
    /\ exited = FALSE
    /\ exitCode = 0
    /\ runs = 0
    /\ firstContent = << >>

\* No call of ensureContrast is under way.
ContrastIdle ==
    /\ ecPc = "idle"
    /\ ecColor = NullColor
    /\ ecBackground = NullColor
    /\ ecMinContrast = 0
    /\ adjustedColor = NullColor
    /\ contrast = 0
    /\ attempts = 0
    /\ ecReturn = NoTheme

Init ==
    /\ ContrastIdle
    /\ CliIdle
    /\ given \in BOOLEAN
    /\ colors = << >>
    /\ cursor = 1
    /\ pc = "input"
    /\ validColors = << >>
    /\ sortedColors = << >>
    /\ colorsByLuminance = << >>
    /\ colorsBySaturation = << >>
    /\ isDarkTheme = FALSE
    /\ roles = NoRoles
    /\ theme = NoTheme
    /\ prevTheme = NoTheme

\* The caller adds a candidate to the list it will pass.
AddColor ==
    /\ pc = "input"
    /\ given
    /\ Len(colors) < MaxColors
    /\ \E i \in cursor..Len(Pool) :
          /\ colors' = Append(colors, Pool[i])
          /\ cursor' = i + 1
    /\ UNCHANGED << given, pc, validColors, sortedColors, colorsByLuminance,
                    colorsBySaturation, isDarkTheme, roles, theme, prevTheme >>
    /\ UNCHANGED contrastVars
    /\ UNCHANGED cliVars

\* A call generateTheme(colors), to its return.
Generate ==
    /\ \E random \in RandomDraws :
          LET frame == generateTheme(given, colors, random)
          IN  /\ theme' = frame.ret
              /\ validColors' = frame.validColors
              /\ sortedColors' = frame.sortedColors
              /\ colorsByLuminance' = frame.colorsByLuminance
              /\ colorsBySaturation' = frame.colorsBySaturation
              /\ isDarkTheme' = frame.isDarkTheme
              /\ roles' = frame.roles
    /\ colors' = ColorsAfter(given, colors)
    /\ prevTheme' = theme
    /\ pc' = "returned"
    /\ UNCHANGED << given, cursor >>
    /\ UNCHANGED contrastVars
    /\ UNCHANGED cliVars

Next == AddColor \/ Generate

Spec == Init /\ [][Next]_vars

(***************************************************************************)
(* Callers that pass a list with a candidate whose hue is NaN, a list      *)
(* whose dominant candidate is a light, saturated blue, or a list with a   *)
(* dark green 0.33 of a turn from the dark red.  The list is any selection *)
(* of EdgePool, in EdgePool order, or up to MaxCopies copies of one entry.  *)
(***************************************************************************)
MaxCopies == 6

EdgePool ==
    << WithHueNotFinite(
           Color("#add8e6", 173, 216, 230, 0, Frac(533, 1000), Frac(79, 100),
                 Frac(9, 10))),
       Color("#2828ff", 40, 40, 255, Frac(6667, 10000), Scale, Frac(578, 1000),
             Frac(95, 100)),
       Color("#4d4d4d", 77, 77, 77, 0, 0, Frac(302, 1000), Frac(3, 10)),
       NullColor,
       Color("#1a0000", 26, 0, 0, 0, Scale, Frac(1, 10), Frac(5, 10)),
       Color("#e0e6ed", 224, 230, 237, Frac(6, 10), Frac(2, 10), Frac(9, 10), Frac(5, 10)),
       Color("#011a00", 1, 26, 0, Frac(33, 100), Scale, Frac(1, 10), Frac(2, 10)) >>

\* The entries of seq whose index is in S, in the order of seq.
Pick(seq, S) ==
    LET F[i \in 0..Len(seq)] ==
            IF i = 0 THEN << >>
            ELSE IF i \in S THEN Append(F[i - 1], seq[i]) ELSE F[i - 1]
    IN  F[Len(seq)]

InitEdge ==
    /\ ContrastIdle
    /\ CliIdle
    /\ given = TRUE
    /\ \/ \E S \in SUBSET (1..Len(EdgePool)) : colors = Pick(EdgePool, S)
       \/ \E i \in 1..Len(EdgePool), k \in 2..MaxCopies :
              colors = [ j \in 1..k |-> EdgePool[i] ]
    /\ cursor = Len(Pool) + 1
    /\ pc = "input"
    /\ validColors = << >>
    /\ sortedColors = << >>
    /\ colorsByLuminance = << >>
    /\ colorsBySaturation = << >>
    /\ isDarkTheme = FALSE
    /\ roles = NoRoles
    /\ theme = NoTheme
    /\ prevTheme = NoTheme

NextEdge == Generate

SpecEdge == InitEdge /\ [][NextEdge]_vars

(***************************************************************************)
(* The generateTheme that ranks by luminance only (assignColors).  Its     *)
(* callers pass a list of Color objects, any list of InitEdge without a    *)
(* null element.  It sorts the caller's list in place.                     *)
(***************************************************************************)
\* luminance(color) of assignColors: the sum of the gamma-decoded channels,
\* times 10^5.
luminance(color) ==
    GammaDecoded[color.red + 1] + GammaDecoded[color.green + 1]
        + GammaDecoded[color.blue + 1]

\* adjustLightness(color, percentage): the hue is printed as it is, a
\* fraction of a turn.
adjustLightness(color, percentage) ==
    LET newLightness ==
            Min(Scale, Max(0, color.lightness + percentage * (Scale \div 100)))
    IN  Hsl(IF color.hueNotFinite THEN NaN ELSE color.hue,
            color.saturation * 100, newLightness * 100)

CompareGammaSum(a, b) == luminance(a) - luminance(b)

\* The object literal assignColors returns for its six colours.
AssignedTheme(cs) ==
    LET sorted == SortWith(cs, CompareGammaSum)
    IN  ("--background" :> adjustLightness(sorted[1], -5)) @@
        ("--foreground" :> adjustLightness(sorted[6], 5)) @@
        ("--card" :> adjustLightness(sorted[1], 0)) @@
        ("--card-foreground" :> adjustLightness(sorted[6], 0)) @@
        ("--popover" :> adjustLightness(sorted[1], 5)) @@
        ("--popover-foreground" :> adjustLightness(sorted[6], -5)) @@
        ("--primary" :> adjustLightness(sorted[5], 0)) @@
        ("--primary-foreground" :> adjustLightness(sorted[6], -10)) @@
        ("--secondary" :> adjustLightness(sorted[4], 0)) @@
        ("--secondary-foreground" :> adjustLightness(sorted[6], -15)) @@
        ("--muted" :> adjustLightness(sorted[2], 5)) @@
        ("--muted-foreground" :> adjustLightness(sorted[5], -5)) @@
        ("--accent" :> adjustLightness(sorted[3], 0)) @@
        ("--accent-foreground" :> adjustLightness(sorted[6], -10)) @@
        ("--destructive" :> Hex("#ff0000")) @@
        ("--destructive-foreground" :> Hex("#ffffff")) @@
        ("--border" :> adjustLightness(sorted[2], -5)) @@
        ("--input" :> adjustLightness(sorted[2], 5)) @@
        ("--ring" :> adjustLightness(sorted[5], 10))

\* assignColors(colors): raises unless it is given exactly six colours.
assignColors(cs) ==
    IF Len(cs) # 6
    THEN [ raised |-> TRUE, ret |-> NoTheme ]
    ELSE [ raised |-> FALSE, ret |-> AssignedTheme(cs) ]

\* The call at its end: whether it raised, the value returned, and the
\* caller's list, which colors.sort has put in descending area order.
generateThemeByRank(cs) ==
    IF Len(cs) = 0
    THEN [ raised |-> TRUE, ret |-> NoTheme, colors |-> cs ]
    ELSE LET inPlace == SortWith(cs, CompareArea)
             prominentColors == SubSeq(inPlace, 1, Min(Len(inPlace), 6))
             assigned == assignColors(prominentColors)
         IN  [ raised |-> assigned.raised, ret |-> assigned.ret, colors |-> inPlace ]

InitRank ==
    /\ InitEdge
    /\ \A i \in 1..Len(colors) : ~colors[i].isNull

\* A call of the luminance-rank generateTheme, to its return or its raise.
GenerateByRank ==
    /\ pc = "input"
    /\ LET call == generateThemeByRank(colors)
       IN  /\ theme' = call.ret
           /\ colors' = call.colors
           /\ pc' = IF call.raised THEN "raised" ELSE "returned"
    /\ UNCHANGED << given, cursor, validColors, sortedColors, colorsByLuminance,
                    colorsBySaturation, isDarkTheme, roles, prevTheme >>
    /\ UNCHANGED contrastVars
    /\ UNCHANGED cliVars

NextRank == GenerateByRank

SpecRank == InitRank /\ [][NextRank]_vars

(***************************************************************************)
(* ensureContrast(color, background, minContrast), statement by statement. *)
(* The arguments are two colours of ContrastPalette and one of the ratios  *)
(* the callers pass.                                                       *)
(***************************************************************************)
ContrastPalette ==
    { Color("#000000", 0, 0, 0, 0, 0, 0, Frac(1, 10)),
      Color("#ffffff", 255, 255, 255, 0, 0, Scale, Frac(1, 10)),
      Color("#7f7f7f", 127, 127, 127, 0, 0, Frac(498, 1000), Frac(1, 10)),
      Color("#f2f2f2", 242, 242, 242, 0, 0, Frac(93, 100), Frac(1, 10)) }
      \cup { Pool[i] : i \in { 1, 2, 4, 5, 7, 8, 9, 10 } }

\* 4.5 (WCAG AA) and 3.5 (muted text).
MinContrasts == { 4500, 3500 }

ThemeIdle ==
    /\ given = FALSE
    /\ colors = << >>
    /\ cursor = 1
    /\ pc = "idle"
    /\ validColors = << >>
    /\ sortedColors = << >>
    /\ colorsByLuminance = << >>
    /\ colorsBySaturation = << >>
    /\ isDarkTheme = FALSE
    /\ roles = NoRoles
    /\ theme = NoTheme
    /\ prevTheme = NoTheme

InitContrast ==
    /\ ThemeIdle
    /\ CliIdle
    /\ ecPc = "call"
    /\ ecColor \in ContrastPalette
    /\ ecBackground \in ContrastPalette
    /\ ecMinContrast \in MinContrasts
    /\ adjustedColor = NullColor
    /\ contrast = 0
    /\ attempts = 0
    /\ ecReturn = NoTheme

\* let adjustedColor = { ...color }; let contrast = ...; let attempts = 0;
EnsureEnter ==
    /\ ecPc = "call"
    /\ adjustedColor' = ecColor
    /\ contrast' = getContrastRatio(ecColor, ecBackground)
    /\ attempts' = 0
    /\ ecPc' = "loop"
    /\ UNCHANGED << ecColor, ecBackground, ecMinContrast, ecReturn >>
    /\ UNCHANGED themeVars
    /\ UNCHANGED cliVars

\* One pass through the body of the while loop.
EnsureIterate ==
    /\ ecPc = "loop"
    /\ LoopContinues(contrast, ecMinContrast, attempts)
    /\ adjustedColor' = AdjustLightness(adjustedColor, ecBackground)
    /\ contrast' = getContrastRatio(adjustedColor', ecBackground)
    /\ attempts' = attempts + 1
    /\ UNCHANGED << ecPc, ecColor, ecBackground, ecMinContrast, ecReturn >>
    /\ UNCHANGED themeVars
    /\ UNCHANGED cliVars

\* return adjustHSL(adjustedColor, {});
EnsureReturn ==
    /\ ecPc = "loop"
    /\ ~LoopContinues(contrast, ecMinContrast, attempts)
    /\ ecReturn' = adjustHSL(adjustedColor, NoAdjust)
    /\ ecPc' = "done"
    /\ UNCHANGED << ecColor, ecBackground, ecMinContrast, adjustedColor,
                    contrast, attempts >>
    /\ UNCHANGED themeVars
    /\ UNCHANGED cliVars

NextContrast == EnsureEnter \/ EnsureIterate \/ EnsureReturn

\* The call runs to its return: nothing suspends a synchronous function.
SpecContrast == InitContrast /\ [][NextContrast]_vars /\ WF_vars(NextContrast)

(***************************************************************************)
(* file.ts: text.  A file's content is a sequence of tokens: the           *)
(* punctuation characters one by one, a blank or a newline, and maximal    *)
(* runs of other characters (words, values) as one token each.  The        *)
(* regular expressions of updateGlobalsCss only tell the characters        *)
(* ":", ";", "{", "}", "-" and white space from the rest.                  *)
(***************************************************************************)
IsSpace(t) == t \in { " ", "\n" }

\* pat occurs in text at position i.
StartsAt(text, i, pat) ==
    /\ i >= 1
    /\ i + Len(pat) - 1 <= Len(text)
    /\ \A j \in 1..Len(pat) : text[i + j - 1] = pat[j]

\* String.prototype.includes
includes(text, pat) == \E i \in 1..Len(text) : StartsAt(text, i, pat)

\* The least element of a non-empty set of integers.
Least(S) == CHOOSE x \in S : \A y \in S : x <= y

\* The first position from i on that does not hold white space.
RECURSIVE SkipSpaces(_, _)
SkipSpaces(text, i) ==
    IF i <= Len(text) /\ IsSpace(text[i]) THEN SkipSpaces(text, i + 1) ELSE i

\* The first position from i on that holds t; 0 when there is none.
IndexFrom(text, i, t) ==
    LET S == { j \in i..Len(text) : text[j] = t }
    IN  IF S = {} THEN 0 ELSE Least(S)

RootText == << ":", "root" >>

\* /(:root\s*{)([^}]*)(})/s tried at position i: the positions of "{" and
\* of "}" when it matches there.
RootMatchAt(text, i) ==
    LET open == SkipSpaces(text, i + Len(RootText))
        close == IF open <= Len(text) THEN IndexFrom(text, open + 1, "}") ELSE 0
    IN  [ found |-> /\ StartsAt(text, i, RootText)
                    /\ open <= Len(text)
                    /\ text[open] = "{"
                    /\ close # 0,
          start |-> i, open |-> open, close |-> close ]

\* updatedCssContent.match(/(:root\s*{)([^}]*)(})/s): the leftmost match.
rootMatch(text) ==
    LET S == { i \in 1..Len(text) : RootMatchAt(text, i).found }
    IN  IF S = {} THEN [ found |-> FALSE, start |-> 0, open |-> 0, close |-> 0 ]
        ELSE RootMatchAt(text, Least(S))

\* rootMatch[2]
rootContent(text) ==
    LET r == rootMatch(text) IN SubSeq(text, r.open + 1, r.close - 1)

\* new RegExp(`${escapedVariable}\\s*:\\s*[^;]+;`) tried at position p: the
\* position of the ";" that ends the match, 0 when it does not match there.
VarRegexEnd(text, p, name) ==
    LET c == SkipSpaces(text, p + Len(name))
        q == IF c <= Len(text) THEN IndexFrom(text, c + 1, ";") ELSE 0
    IN  IF /\ StartsAt(text, p, name)
           /\ c <= Len(text)
           /\ text[c] = ":"
           /\ q >= c + 2
        THEN q ELSE 0

\* varRegex.test(newRootContent)
VarRegexTest(text, name) == \E p \in 1..Len(text) : VarRegexEnd(text, p, name) # 0

\* newRootContent.replace(varRegex, replacement) with the flag g, from p on:
\* the text up to the next match, the replacement, and so on after the match.
RECURSIVE ReplaceFrom(_, _, _, _)
ReplaceFrom(text, p, name, replacement) ==
    LET S == { s \in p..Len(text) : VarRegexEnd(text, s, name) # 0 }
    IN  IF S = {} THEN SubSeq(text, p, Len(text))
        ELSE LET s == Least(S)
                 q == VarRegexEnd(text, s, name)
             IN  SubSeq(text, p, s - 1) \o replacement
                     \o ReplaceFrom(text, q + 1, name, replacement)

\* The characters of a custom property name: "--", then the words joined
\* by "-".
RECURSIVE Dashed(_)
Dashed(words) ==
    IF Len(words) = 0 THEN << >>
    ELSE IF Len(words) = 1 THEN << words[1] >>
    ELSE << words[1], "-" >> \o Dashed(Tail(words))

Name(words) == << "-", "-" >> \o Dashed(words)

\* The keys of the object generateTheme returns, in the order of
\* Object.entries, each with its words.
ThemeKeys ==
    << << "--background", << "background" >> >>,
       << "--foreground", << "foreground" >> >>,
       << "--card", << "card" >> >>,
       << "--card-foreground", << "card", "foreground" >> >>,
       << "--popover", << "popover" >> >>,
       << "--popover-foreground", << "popover", "foreground" >> >>,
       << "--primary", << "primary" >> >>,
       << "--primary-foreground", << "primary", "foreground" >> >>,
       << "--secondary", << "secondary" >> >>,
       << "--secondary-foreground", << "secondary", "foreground" >> >>,
       << "--accent", << "accent" >> >>,
       << "--accent-foreground", << "accent", "foreground" >> >>,
       << "--muted", << "muted" >> >>,
       << "--muted-foreground", << "muted", "foreground" >> >>,
       << "--destructive", << "destructive" >> >>,
       << "--destructive-foreground", << "destructive", "foreground" >> >>,
       << "--border", << "border" >> >>,
       << "--input", << "input" >> >>,
       << "--ring", << "ring" >> >>,
       << "--radius", << "radius" >> >> >>

\* n with at least w decimal digits.
RECURSIVE Padded(_, _)
Padded(n, w) ==
    IF w <= 1 \/ n >= 10 ^ (w - 1) THEN ToString(n) ELSE "0" \o Padded(n, w - 1)

\* The digits after the decimal point of f / 10^w, without trailing zeros.
RECURSIVE Fraction(_, _)
Fraction(f, w) ==
    IF f % 10 = 0 /\ w > 1 THEN Fraction(f \div 10, w - 1) ELSE Padded(f, w)

\* `${x}` for the number n / Scale.
NumberText(n) ==
    IF ToString(n) = ToString(NaN) THEN NaN
    ELSE IF n % Scale = 0 THEN ToString(n \div Scale)
    ELSE ToString(n \div Scale) \o "." \o Fraction(n % Scale, 4)

\* The string a value of the theme stands for.
CssText(v) ==
    IF v.fmt = "hex" THEN v.hex
    ELSE IF v.fmt = "rem"
         THEN ToString(v.milli \div 1000) \o "." \o Padded(v.milli % 1000, 3) \o "rem"
         ELSE "hsl(" \o NumberText(v.h) \o ", " \o NumberText(v.s) \o "%, "
                  \o NumberText(v.l) \o "%)"

\* Object.entries(colorVariables), each variable with the tokens of its name.
Entries(variables) ==
    LET present == SelectSeq(ThemeKeys, LAMBDA k : k[1] \in DOMAIN variables)
    IN  [ i \in 1..Len(present) |->
            [ variable |-> present[i][1],
              name |-> Name(present[i][2]),
              color |-> CssText(variables[present[i][1]]) ] ]

\* `${variable}: ${color};`
Declaration(entry) == entry.name \o << ":", " ", entry.color, ";" >>

\* One pass of the loop over Object.entries(colorVariables).
PatchVariable(newRootContent, entry) ==
    IF VarRegexTest(newRootContent, entry.name)
    THEN ReplaceFrom(newRootContent, 1, entry.name, Declaration(entry))
    ELSE newRootContent \o << "\n", " ", " " >> \o Declaration(entry)

\* The loop over Object.entries(colorVariables): newRootContent after the
\* first i entries.
PatchFrom(rootText, entries, n) ==
    LET patched[i \in 0..n] ==
            IF i = 0 THEN rootText ELSE PatchVariable(patched[i - 1], entries[i])
    IN  patched[n]

\* updatedCssContent.replace(/(:root\s*{)([^}]*)(})/s, `$1${newRootContent}$3`)
ReplaceRoot(text, newRootContent) ==
    LET r == rootMatch(text)
    IN  SubSeq(text, 1, r.open) \o newRootContent \o SubSeq(text, r.close, Len(text))

\* The content updateGlobalsCss writes for a stylesheet with a :root block.
UpdatedCss(cssText, variables) ==
    ReplaceRoot(cssText,
                PatchFrom(rootContent(cssText), Entries(variables),
                          Len(Entries(variables))))

(***************************************************************************)
(* The stylesheets the tool may find.                                      *)
(***************************************************************************)
\* One line of a block: two blanks, the name, ": ", the value, ";".
Line(words, value) ==
    << "\n", " ", " " >> \o Name(words) \o << ":", " ", value, ";" >>

DarkBlock ==
    << "\n", ".dark", " ", "{" >>
        \o Line(<< "background" >>, "hsl(20, 3%, 89%)")
        \o Line(<< "primary" >>, "hsl(300, 100%, 1%)")
        \o Line(<< "sidebar", "primary" >>, "oklch(0.488 0.243 264.376)")
        \o << "\n", "}", "\n" >>

\* The shape of the stylesheet of a shadcn project.
ShadcnCss ==
    << "@import", " ", "tailwindcss", ";", "\n" >> \o RootText \o << " ", "{" >>
        \o Line(<< "background" >>, "hsl(250.9, 94.3%, 5%)")
        \o Line(<< "card" >>, "hsl(250.9, 94.3%, 10%)")
        \o Line(<< "card", "foreground" >>, "hsl(300.5, 98.5%, 84.1%)")
        \o Line(<< "primary" >>, "hsl(300.5, 98.5%, 74.1%)")
        \o Line(<< "chart", "1" >>, "oklch(0.646 0.222 41.116)")
        \o Line(<< "radius" >>, "0.625rem")
        \o Line(<< "sidebar", "primary" >>, "oklch(0.205 0 0)")
        \o << "\n", "}", "\n" >> \o DarkBlock

\* A :root block without any key of the theme, written ":root{".
BareRootCss ==
    RootText \o << "{" >> \o Line(<< "sidebar" >>, "oklch(0.985 0 0)")
        \o << "\n", "}", "\n" >> \o DarkBlock

\* No ":root" anywhere.
NoRootCss ==
    << "body", " ", "{", "\n", " ", " ", "color", ":", " ", "red", ";", "\n", "}", "\n" >>

\* ":root" in a comment only.
RootInCommentCss == << "/*", " " >> \o RootText \o << " ", "*/", "\n" >> \o NoRootCss

\* The last declaration of the block is written without its ";".
UnterminatedCss ==
    RootText \o << " ", "{" >>
        \o Line(<< "primary" >>, "blue")
        \o << "\n", " ", " " >> \o Name(<< "background" >>) \o << ":", " ", "white" >>
        \o << "\n", "}", "\n" >>

\* A property named after a component and its variant: --btn--primary.
VariantNameCss ==
    RootText \o << " ", "{" >>
        \o << "\n", " ", " " >> \o Name(<< "btn" >>) \o Name(<< "primary" >>)
        \o << ":", " ", "red", ";" >>
        \o Line(<< "primary" >>, "blue")
        \o << "\n", "}", "\n" >>

Stylesheets ==
    { ShadcnCss, BareRootCss, NoRootCss, RootInCommentCss, UnterminatedCss,
      VariantNameCss }

\* The colours an extraction may yield.
ExtractedLists ==
    { << Pool[1], Pool[2] >>, << Pool[9], Pool[4], Pool[5] >> }

(***************************************************************************)
(* main() and updateGlobalsCss(), await by await.  The process starts in a *)
(* project whose public folder and stylesheet are any of the above.        *)
(***************************************************************************)
InitCli ==
    /\ ContrastIdle
    /\ given = TRUE
    /\ colors = << >>
    /\ cursor = 1
    /\ pc = "input"
    /\ validColors = << >>
    /\ sortedColors = << >>
    /\ colorsByLuminance = << >>
    /\ colorsBySaturation = << >>
    /\ isDarkTheme = FALSE
    /\ roles = NoRoles
    /\ theme = NoTheme
    /\ prevTheme = NoTheme
    /\ publicDir \in { "absent", "empty", "images" }
    /\ globalsCss \in { NoFile } \cup { File(s) : s \in Stylesheets }
    /\ backupFile = NoFile
    /\ mainPc = "findImages"
    /\ ugPc = "idle"
    /\ cssContent = << >>
    /\ colorVariables = NoTheme
    /\ successPrinted = FALSE
    /\ exited = FALSE
    /\ exitCode = 0
    /\ runs = 0
    /\ firstContent = globalsCss.content

generateLocals == << validColors, sortedColors, colorsByLuminance, colorsBySaturation,
                     isDarkTheme, roles, theme, prevTheme >>

\* process.exit(1)
Exit1 ==
    /\ exited' = TRUE
    /\ exitCode' = 1

\* findImagesInPublicFolder: the folder is missing or holds no supported
\* image.
FindImagesFails ==
    /\ ~exited /\ mainPc = "findImages"
    /\ publicDir # "images"
    /\ Exit1
    /\ UNCHANGED << publicDir, globalsCss, backupFile, mainPc, ugPc, cssContent,
                    colorVariables, successPrinted >>
    /\ UNCHANGED << themeVars, contrastVars >>
    /\ UNCHANGED << runs, firstContent >>

FindImages ==
    /\ ~exited /\ mainPc = "findImages"
    /\ publicDir = "images"
    /\ mainPc' = "prompt"
    /\ UNCHANGED << publicDir, globalsCss, backupFile, ugPc, cssContent,
                    colorVariables, successPrinted, exited, exitCode >>
    /\ UNCHANGED << themeVars, contrastVars >>
    /\ UNCHANGED << runs, firstContent >>

\* inquirer.prompt resolves with the image the user selects.
SelectImage ==
    /\ ~exited /\ mainPc = "prompt"
    /\ mainPc' = "findCss"
    /\ UNCHANGED << publicDir, globalsCss, backupFile, ugPc, cssContent,
                    colorVariables, successPrinted, exited, exitCode >>
    /\ UNCHANGED << themeVars, contrastVars >>
    /\ UNCHANGED << runs, firstContent >>

\* Variant: the search returns the first possible path unchecked.
CssFound_unchecked(file) == TRUE

\* findGlobalsCssPath's search: one of the possible paths is accessible.
CssFound(file) == file.exists

\* findGlobalsCssPath: none of the possible paths is accessible.
FindCssFails ==
    /\ ~exited /\ mainPc = "findCss"
    /\ ~CssFound(globalsCss)
    /\ Exit1
    /\ UNCHANGED << publicDir, globalsCss, backupFile, mainPc, ugPc, cssContent,
                    colorVariables, successPrinted >>
    /\ UNCHANGED << themeVars, contrastVars >>
    /\ UNCHANGED << runs, firstContent >>

FindCss ==
    /\ ~exited /\ mainPc = "findCss"
    /\ CssFound(globalsCss)
    /\ mainPc' = "extract"
    /\ UNCHANGED << publicDir, globalsCss, backupFile, ugPc, cssContent,
                    colorVariables, successPrinted, exited, exitCode >>
    /\ UNCHANGED << themeVars, contrastVars >>
    /\ UNCHANGED << runs, firstContent >>

\* extractColorsFromImage: the format is not supported, the image cannot be
\* read, or no colour is extracted ("Failed to extract colors").
ExtractFails ==
    /\ ~exited /\ mainPc = "extract"
    /\ Exit1
    /\ UNCHANGED << publicDir, globalsCss, backupFile, mainPc, ugPc, cssContent,
                    colorVariables, successPrinted >>
    /\ UNCHANGED << themeVars, contrastVars >>
    /\ UNCHANGED << runs, firstContent >>

Extract ==
    /\ ~exited /\ mainPc = "extract"
    /\ colors' \in ExtractedLists
    /\ mainPc' = "generate"
    /\ UNCHANGED << given, cursor, pc, generateLocals >>
    /\ UNCHANGED << contrastVars, publicDir, globalsCss, backupFile, ugPc, cssContent,
                    colorVariables, successPrinted, exited, exitCode >>
    /\ UNCHANGED << runs, firstContent >>

\* const colorVariables = generateTheme(colors);
MainGenerate ==
    /\ ~exited /\ mainPc = "generate"
    /\ \E random \in RandomDraws :
          LET frame == generateTheme(given, colors, random)
          IN  /\ theme' = frame.ret
              /\ validColors' = frame.validColors
              /\ sortedColors' = frame.sortedColors
              /\ colorsByLuminance' = frame.colorsByLuminance
              /\ colorsBySaturation' = frame.colorsBySaturation
              /\ isDarkTheme' = frame.isDarkTheme
              /\ roles' = frame.roles
    /\ colors' = ColorsAfter(given, colors)
    /\ prevTheme' = theme
    /\ pc' = "returned"
    /\ mainPc' = "update"
    /\ UNCHANGED << given, cursor >>
    /\ UNCHANGED << contrastVars, publicDir, globalsCss, backupFile, ugPc, cssContent,
                    colorVariables, successPrinted, exited, exitCode >>
    /\ UNCHANGED << runs, firstContent >>

\* updateGlobalsCss(cssPath, colorVariables), not awaited: the call runs to
\* its first await (readFile) and main goes on.
CallUpdate ==
    /\ ~exited /\ mainPc = "update"
    /\ colorVariables' = theme
    /\ ugPc' = "readFile"
    /\ mainPc' = "report"
    /\ UNCHANGED << publicDir, globalsCss, backupFile, cssContent, successPrinted,
                    exited, exitCode >>
    /\ UNCHANGED << themeVars, contrastVars >>
    /\ UNCHANGED << runs, firstContent >>

\* The console.log calls that close main.
Report ==
    /\ ~exited /\ mainPc = "report"
    /\ successPrinted' = TRUE
    /\ mainPc' = "end"
    /\ UNCHANGED << publicDir, globalsCss, backupFile, ugPc, cssContent,
                    colorVariables, exited, exitCode >>
    /\ UNCHANGED << themeVars, contrastVars >>
    /\ UNCHANGED << runs, firstContent >>

\* A continuation of updateGlobalsCss runs once the synchronous code of
\* main has run to its end.
MayResume == ~exited /\ mainPc = "end"

\* Variant: the test on includes(':root') is left out.
LacksRootText_never(text) == FALSE

\* !cssContent.includes(':root')
LacksRootText(text) == ~includes(text, RootText)

\* readFile resolved; the test on includes(':root') failed.
UpdateLacksRoot ==
    /\ MayResume /\ ugPc = "readFile"
    /\ LacksRootText(globalsCss.content)
    /\ cssContent' = globalsCss.content
    /\ Exit1
    /\ UNCHANGED << publicDir, globalsCss, backupFile, mainPc, ugPc, colorVariables,
                    successPrinted >>
    /\ UNCHANGED << themeVars, contrastVars >>
    /\ UNCHANGED << runs, firstContent >>

\* readFile resolved; writeFile(backupPath, cssContent) is started.
UpdateRead ==
    /\ MayResume /\ ugPc = "readFile"
    /\ ~LacksRootText(globalsCss.content)
    /\ cssContent' = globalsCss.content
    /\ ugPc' = "writeBackup"
    /\ UNCHANGED << publicDir, globalsCss, backupFile, mainPc, colorVariables,
                    successPrinted, exited, exitCode >>
    /\ UNCHANGED << themeVars, contrastVars >>
    /\ UNCHANGED << runs, firstContent >>

\* The backup is written; the :root block is not found.
UpdateNoRootBlock ==
    /\ MayResume /\ ugPc = "writeBackup"
    /\ backupFile' = File(cssContent)
    /\ ~rootMatch(cssContent).found
    /\ Exit1
    /\ UNCHANGED << publicDir, globalsCss, mainPc, ugPc, cssContent, colorVariables,
                    successPrinted >>
    /\ UNCHANGED << themeVars, contrastVars >>
    /\ UNCHANGED << runs, firstContent >>

\* Variant: a backup that exists is kept (flag 'wx' in place of 'w').
UpdateBackup_keepsFirst ==
    /\ MayResume /\ ugPc = "writeBackup"
    /\ backupFile' = IF backupFile.exists THEN backupFile ELSE File(cssContent)
    /\ rootMatch(cssContent).found
    /\ ugPc' = "writeCss"
    /\ UNCHANGED << publicDir, globalsCss, mainPc, cssContent, colorVariables,
                    successPrinted, exited, exitCode >>
    /\ UNCHANGED << themeVars, contrastVars >>
    /\ UNCHANGED << runs, firstContent >>

\* The backup is written; writeFile(cssPath, updatedCssContent) is started.
UpdateBackup ==
    /\ MayResume /\ ugPc = "writeBackup"
    /\ backupFile' = File(cssContent)
    /\ rootMatch(cssContent).found
    /\ ugPc' = "writeCss"
    /\ UNCHANGED << publicDir, globalsCss, mainPc, cssContent, colorVariables,
                    successPrinted, exited, exitCode >>
    /\ UNCHANGED << themeVars, contrastVars >>
    /\ UNCHANGED << runs, firstContent >>

\* The stylesheet is written; open, sync and close follow.
UpdateWrite ==
    /\ MayResume /\ ugPc = "writeCss"
    /\ globalsCss' = File(UpdatedCss(cssContent, colorVariables))
    /\ ugPc' = "sync"
    /\ UNCHANGED << publicDir, backupFile, mainPc, cssContent, colorVariables,
                    successPrinted, exited, exitCode >>
    /\ UNCHANGED << themeVars, contrastVars >>
    /\ UNCHANGED << runs, firstContent >>

\* sync, close and the delay are over: spinner.succeed, the promise
\* resolves and the process ends.
UpdateDone ==
    /\ MayResume /\ ugPc = "sync"
    /\ ugPc' = "done"
    /\ exited' = TRUE
    /\ exitCode' = 0
    /\ UNCHANGED << publicDir, globalsCss, backupFile, mainPc, cssContent,
                    colorVariables, successPrinted >>
    /\ UNCHANGED << themeVars, contrastVars >>
    /\ runs' = runs + 1
    /\ UNCHANGED firstContent

\* A file operation rejects: the catch block exits with status 1.
UpdateIoFails ==
    /\ MayResume /\ ugPc \in { "readFile", "writeBackup", "writeCss", "sync" }
    /\ Exit1
    /\ UNCHANGED << publicDir, globalsCss, backupFile, mainPc, ugPc, cssContent,
                    colorVariables, successPrinted >>
    /\ UNCHANGED << themeVars, contrastVars >>
    /\ UNCHANGED << runs, firstContent >>

NextCli ==
    \/ FindImagesFails \/ FindImages \/ SelectImage \/ FindCssFails \/ FindCss
    \/ ExtractFails \/ Extract \/ MainGenerate \/ CallUpdate \/ Report
    \/ UpdateLacksRoot \/ UpdateRead \/ UpdateNoRootBlock \/ UpdateBackup
    \/ UpdateWrite \/ UpdateDone \/ UpdateIoFails

SpecCli == InitCli /\ [][NextCli]_vars

(***************************************************************************)
(* The tool run again on the same project, up to MaxRuns runs that update  *)
(* the stylesheet.  The files are as the run before left them.             *)
(***************************************************************************)
MaxRuns == 2

\* main(); in a new process, after a run that updated the stylesheet.
RunAgain ==
    /\ exited /\ exitCode = 0
    /\ runs < MaxRuns
    /\ given' = TRUE
    /\ colors' = << >>
    /\ cursor' = 1
    /\ pc' = "input"
    /\ validColors' = << >>
    /\ sortedColors' = << >>
    /\ colorsByLuminance' = << >>
    /\ colorsBySaturation' = << >>
    /\ isDarkTheme' = FALSE
    /\ roles' = NoRoles
    /\ theme' = NoTheme
    /\ prevTheme' = NoTheme
    /\ mainPc' = "findImages"
    /\ ugPc' = "idle"
    /\ cssContent' = << >>
    /\ colorVariables' = NoTheme
    /\ successPrinted' = FALSE
    /\ exited' = FALSE
    /\ exitCode' = 0
    /\ UNCHANGED << publicDir, globalsCss, backupFile, runs, firstContent >>
    /\ UNCHANGED contrastVars

NextRerun == NextCli \/ RunAgain

SpecRerun == InitCli /\ [][NextRerun]_vars

(***************************************************************************)
(* Properties                                                              *)
(***************************************************************************)
Returned == pc = "returned"

\* A candidate as the specification describes a valid one: an object whose
\* hue, saturation and lightness are numbers.
HasNumericHSL(color) == ~color.isNull /\ color.nonNumeric = {}

\* The valid candidates of the caller's list, in input order.
Candidates == SelectSeq(colors, HasNumericHSL)

\* A value of the theme is a colour string.
IsColorValue(v) == v.fmt \in { "hsl", "hex" }

\* The colour keys of two themes agree.
SameColors(t1, t2) ==
    /\ ColorKeys \subseteq DOMAIN t1
    /\ ColorKeys \subseteq DOMAIN t2
    /\ \A k \in ColorKeys : t1[k] = t2[k]

\* C1: called with a missing list, an empty list or a list of invalid
\* elements only, generateTheme returns a theme that holds a colour for each
\* of the 19 colour keys.
C1_FallbackComplete ==
    (Returned /\ (~given \/ Candidates = << >>)) =>
        /\ ColorKeys \subseteq DOMAIN theme
        /\ \A k \in ColorKeys : IsColorValue(theme[k])

C1_Witness ==
    /\ Returned
    /\ given
    /\ Len(colors) = 2
    /\ Candidates = << >>
    /\ ColorKeys \subseteq DOMAIN theme

AreaRank(seq, i) ==
    1 + Cardinality({ j \in 1..Len(seq) :
                        \/ seq[j].area > seq[i].area
                        \/ seq[j].area = seq[i].area /\ j < i })

\* The (at most 6) candidates of largest area, in descending area order.
TopSixByArea(seq) ==
    [ k \in 1..Min(6, Len(seq)) |->
        seq[CHOOSE i \in 1..Len(seq) : AreaRank(seq, i) = k] ]

\* The candidates among the top 6 by area, in input order.
WithoutTheRest(seq) ==
    LET top(i) == AreaRank(seq, i) <= 6
        idx[k \in 0..Len(seq)] ==
            IF k = 0 THEN << >>
            ELSE IF top(k) THEN Append(idx[k - 1], seq[k]) ELSE idx[k - 1]
    IN  idx[Len(seq)]

\* C3: with more than 6 valid candidates the working set is the 6 of largest
\* area, in descending area order, equal areas in input order; the theme is
\* the one returned for the list without the other candidates.
C3_TopSixByArea ==
    (Returned /\ Len(Candidates) > 6) =>
        /\ sortedColors = TopSixByArea(Candidates)
        /\ SameColors(theme, generateTheme(TRUE, WithoutTheRest(Candidates), 0).ret)

C3_Witness ==
    /\ Returned
    /\ Len(Candidates) = 7
    /\ AreaRank(Candidates, 1) = 2
    /\ AreaRank(Candidates, 7) < 6
    /\ sortedColors = TopSixByArea(Candidates)

\* C4: two calls with the same list return themes that agree on every key
\* except --radius.
C4_Deterministic ==
    (Returned /\ prevTheme # NoTheme) => SameColors(theme, prevTheme)

C4_Witness ==
    /\ Returned
    /\ prevTheme # NoTheme
    /\ Len(Candidates) \in 1..5
    /\ theme["--radius"] # prevTheme["--radius"]
    /\ SameColors(theme, prevTheme)

\* The hsl() value of a colour with hue h in [0,1), saturation s and
\* lightness l.
HslOf(h, s, l) == Hsl(h * 360, s * 100, l * 100)

\* The luminance that generateTheme sorts by: the weighted sum of the red,
\* green and blue fields, 0.2126 R + 0.7152 G + 0.0722 B, times 255 * 10^4.
SortKey(color) == 2126 * color.red + 7152 * color.green + 722 * color.blue

NudgedDown(color) ==
    HslOf(color.hue, color.saturation, Max(Frac(5, 100), color.lightness - Frac(1, 10)))

NudgedUp(color) ==
    HslOf(color.hue, color.saturation, Min(Frac(95, 100), color.lightness + Frac(1, 10)))

\* C5: with a valid candidate, --background and --foreground are derived
\* from a member of least and a member of greatest luminance of the working
\* set: in dark mode the background is the darkest with lightness
\* max(0.05, l - 0.1) and the foreground the lightest with lightness
\* min(0.95, l + 0.1); in light mode the two are swapped.
C5_Extremes ==
    (Returned /\ Len(Candidates) >= 1) =>
        \E d, b \in 1..Len(sortedColors) :
            /\ \A j \in 1..Len(sortedColors) :
                  /\ SortKey(sortedColors[d]) <= SortKey(sortedColors[j])
                  /\ SortKey(sortedColors[b]) >= SortKey(sortedColors[j])
            /\ IF isDarkTheme
               THEN /\ theme["--background"] = NudgedDown(sortedColors[d])
                    /\ theme["--foreground"] = NudgedUp(sortedColors[b])
               ELSE /\ theme["--background"] = NudgedUp(sortedColors[b])
                    /\ theme["--foreground"] = NudgedDown(sortedColors[d])

C5_Witness ==
    /\ Returned
    /\ Len(Candidates) = 6
    /\ isDarkTheme
    /\ theme["--background"].l = 5 * Scale
    /\ theme["--foreground"].l = 95 * Scale
    /\ SortKey(sortedColors[1]) # SortKey(colorsByLuminance[1])
    /\ SortKey(sortedColors[1]) # SortKey(colorsByLuminance[6])

\* The valid candidate of largest area, the first in input order among equals.
Dominant(seq) == seq[CHOOSE i \in 1..Len(seq) : AreaRank(seq, i) = 1]

\* [dark red h=0, s=1, l=0.1, rgb (26,0,0), area 0.5;
\*  near-white h=0.6, s=0.2, l=0.9, rgb (224,230,237), area 0.5]
ScenarioInput ==
    << Color("#1a0000", 26, 0, 0, 0, Scale, Frac(1, 10), Frac(5, 10)),
       Color("#e0e6ed", 224, 230, 237, Frac(6, 10), Frac(2, 10), Frac(9, 10), Frac(5, 10)) >>

\* C6: the theme is dark exactly when the valid candidate of largest area
\* (the first among equals) has lightness < 0.5; for the dark red and
\* near-white input it is dark.
C6_Polarity ==
    /\ (Returned /\ Len(Candidates) >= 1) =>
          (isDarkTheme <=> Dominant(Candidates).lightness < Frac(5, 10))
    /\ (Returned /\ colors = ScenarioInput) => isDarkTheme

C6_Witness ==
    /\ Returned
    /\ colors = ScenarioInput
    /\ isDarkTheme
    /\ theme["--background"] = NudgedDown(ScenarioInput[1])

\* C7 as stated: the member picked as darkest (lightest) has the least
\* (greatest) WCAG relative luminance of the working set.
C7_Original ==
    (Returned /\ Len(Candidates) >= 1) =>
        \A j \in 1..Len(sortedColors) :
            /\ calculateLuminance(colorsByLuminance[1]) <= calculateLuminance(sortedColors[j])
            /\ calculateLuminance(colorsByLuminance[6]) >= calculateLuminance(sortedColors[j])

Black == Hsl(0, 0, 0)
White == Hsl(0, 0, 100 * Scale)

IsBlack(v) == v = Black \/ v = Hex("#000000")
IsWhite(v) == v = White \/ v = Hex("#ffffff")

\* luminance > 0.5 for the weighted sum of the channels r, g, b.
AboveHalf(r, g, b) == 2 * (2126 * r + 7152 * g + 722 * b) > 255 * 10000

\* black when the luminance of the colour the role was derived from is
\* > 0.5, white otherwise.
ReadableOn(color) ==
    IF AboveHalf(color.red, color.green, color.blue) THEN Black ELSE White

C9_DestructiveFixed ==
    Returned =>
        /\ theme["--destructive"] = Hex("#ff4444")
        /\ theme["--destructive-foreground"] = Hex("#ffffff")

C9_Witness ==
    /\ Returned
    /\ given
    /\ Len(colors) >= 1
    /\ Candidates = << >>
    /\ theme["--destructive"] = Hex("#ff4444")

\* The candidates have hue in [0,1) and saturation and lightness in [0,1].
InRange(seq) ==
    \A i \in 1..Len(seq) :
        /\ 0 <= seq[i].hue /\ seq[i].hue < Scale
        /\ 0 <= seq[i].saturation /\ seq[i].saturation <= Scale
        /\ 0 <= seq[i].lightness /\ seq[i].lightness <= Scale

\* C10: every hsl(H, S%, L%) value of the theme has H in [0,360) and S and L
\* in [0,100].
C10_HslInRange ==
    (Returned /\ InRange(Candidates)) =>
        \A k \in ColorKeys :
            theme[k].fmt = "hsl" =>
                /\ 0 <= theme[k].h /\ theme[k].h < 360 * Scale
                /\ 0 <= theme[k].s /\ theme[k].s <= 100 * Scale
                /\ 0 <= theme[k].l /\ theme[k].l <= 100 * Scale

\* The additive adjustments reach both ends of the range, and a shifted hue
\* wraps.
C10_Witness ==
    /\ Returned
    /\ Len(Candidates) >= 1
    /\ InRange(Candidates)
    /\ theme["--ring"].s = 100 * Scale
    /\ theme["--ring"].l = 0
    /\ theme["--accent"].h < theme["--primary"].h


HasFiniteHSL(color) == HasNumericHSL(color) /\ ~color.hueNotFinite

\* C13 (as stated): a candidate whose hue, saturation or lightness is not a
\* finite number is never a member of the working set.
C13_Original ==
    Returned => \A i \in 1..Len(sortedColors) : HasFiniteHSL(sortedColors[i])

\* The theme of the one-element list that holds the fallback candidate.
ThemeOfFallbackList == generateTheme(TRUE, << createFallbackColor >>, 0).ret

C20_Original ==
    (/\ Returned
     /\ Len(colors) >= 1
     /\ \A i \in 1..Len(colors) : HasFiniteHSL(colors[i])) =>
        IF isDarkTheme
        THEN theme["--background"].l < theme["--foreground"].l
        ELSE theme["--background"].l > theme["--foreground"].l


\* A step of the model is a pass through the loop body of ensureContrast.
IsIteration == ecPc = "loop" /\ attempts' = attempts + 1

\* C11 (as stated): ensureContrast terminates; every iteration changes the
\* lightness by 5 percentage points, down when the background's lightness
\* is > 0.5 and up otherwise, and recomputes the ratio; the loop stops once
\* the ratio is >= minContrast and makes at most 20 adjustments.
C11_Original ==
    /\ <>(ecPc = "done")
    /\ [](attempts <= 20)
    /\ [](ecPc = "done" => (contrast >= ecMinContrast \/ attempts = 20))
    /\ [][IsIteration =>
            /\ contrast < ecMinContrast
            /\ adjustedColor'.lightness =
                   IF ecBackground.lightness > Frac(5, 10)
                   THEN adjustedColor.lightness - Frac(5, 100)
                   ELSE adjustedColor.lightness + Frac(5, 100)
            /\ contrast' = getContrastRatio(adjustedColor', ecBackground)]_vars

\* C11 (amended): ensureContrast terminates; every iteration moves the
\* lightness by 5 percentage points, down when the background's lightness
\* is > 0.5 and up otherwise, and clamps the result to [0.05, 0.95], so a
\* lightness at the bound stays there; it recomputes the ratio after each
\* change, iterates only while the ratio is < minContrast and makes at most
\* 20 adjustments.
C11_EnsureContrastTerminates ==
    /\ <>(ecPc = "done")
    /\ [](attempts <= 20)
    /\ [](ecPc = "done" => (contrast >= ecMinContrast \/ attempts = 20))
    /\ [][IsIteration =>
            /\ contrast < ecMinContrast
            /\ adjustedColor'.lightness =
                   IF ecBackground.lightness > Frac(5, 10)
                   THEN Max(Frac(5, 100),
                            Min(Frac(95, 100), adjustedColor.lightness - Frac(5, 100)))
                   ELSE Max(Frac(5, 100),
                            Min(Frac(95, 100), adjustedColor.lightness + Frac(5, 100)))
            /\ contrast' = getContrastRatio(adjustedColor', ecBackground)]_vars

\* A call on a colour of lightness 0.1 against a dark background returned
\* after 20 adjustments, the lightness held at 0.95.
C11_Witness ==
    /\ ecPc = "done"
    /\ attempts = 20
    /\ ecColor.lightness = Frac(1, 10)
    /\ ecBackground.lightness <= Frac(5, 10)
    /\ adjustedColor.lightness = Frac(95, 100)
    /\ ecReturn.l = 95 * Scale

\* C15: the contrast ratio of any two colours is in [1, 21], by
\* getContrastRatio and by calculateContrastRatio alike, and the ratio of a
\* colour with itself is exactly 1.
C15_ContrastRange ==
    ecPc # "idle" =>
        /\ getContrastRatio(ecColor, ecBackground) \in 1000..21000
        /\ calculateContrastRatio(getLuminance(ecColor), getLuminance(ecBackground))
               \in 1000..21000
        /\ getContrastRatio(ecColor, ecColor) = 1000
        /\ calculateContrastRatio(getLuminance(ecColor), getLuminance(ecColor)) = 1000
        /\ ecPc \in { "loop", "done" } => contrast \in 1000..21000

\* Black on white: the ratio 21 was computed.
C15_Witness ==
    /\ ecPc = "done"
    /\ ecColor.hex = "#000000"
    /\ ecBackground.hex = "#ffffff"
    /\ contrast = 21000


\* The text without the white space at its ends.
Trim(text) ==
    LET S == { j \in 1..Len(text) : ~IsSpace(text[j]) }
    IN  IF S = {} THEN << >>
        ELSE SubSeq(text, Least(S), CHOOSE j \in S : \A k \in S : k <= j)

\* The ends of the declarations of a block's content: every ";", and the
\* end of the content for a last declaration written without ";".
DeclEnds(text) ==
    { e \in 1..(Len(text) + 1) :
        /\ e = Len(text) + 1 \/ text[e] = ";"
        /\ LET S == { j \in 1..(e - 1) : text[j] = ";" }
               a == IF S = {} THEN 1 ELSE (CHOOSE j \in S : \A k \in S : k <= j) + 1
           IN  IndexFrom(SubSeq(text, a, e - 1), 1, ":") # 0 }

\* The declaration that ends at e: its name and its value.
DeclAt(text, e) ==
    LET S == { j \in 1..(e - 1) : text[j] = ";" }
        a == IF S = {} THEN 1 ELSE (CHOOSE j \in S : \A k \in S : k <= j) + 1
        seg == SubSeq(text, a, e - 1)
        c == IndexFrom(seg, 1, ":")
    IN  [ name |-> Trim(SubSeq(seg, 1, c - 1)),
          value |-> Trim(SubSeq(seg, c + 1, Len(seg))) ]

Declarations(text) == { DeclAt(text, e) : e \in DeclEnds(text) }

\* The number of declarations of the name in a block's content.
Declared(text, name) ==
    Cardinality({ e \in DeclEnds(text) : DeclAt(text, e).name = name })

\* A run of updateGlobalsCss that read a stylesheet with a :root block.
HasRootBlock(text) == rootMatch(text).found

ThemeNames == { Name(ThemeKeys[i][2]) : i \in 1..Len(ThemeKeys) }

C17_Original ==
    ugPc = "done" =>
        LET old == rootContent(cssContent)
            new == rootContent(globalsCss.content)
            entries == Entries(colorVariables)
        IN  \A i \in 1..Len(entries) :
                /\ \A d \in Declarations(new) :
                      d.name = entries[i].name => d.value = << entries[i].color >>
                /\ Declared(new, entries[i].name) =
                       IF Declared(old, entries[i].name) = 0 THEN 1
                       ELSE Declared(old, entries[i].name)

\* C18 (as stated): updateGlobalsCss leaves everything outside the :root
\* block as it was, and inside the block every declaration whose name is
\* not a key of the theme.
C18_Original ==
    ugPc = "done" =>
        LET old == cssContent
            new == globalsCss.content
            ro == rootMatch(old)
            rn == rootMatch(new)
        IN  /\ SubSeq(new, 1, rn.open) = SubSeq(old, 1, ro.open)
            /\ SubSeq(new, rn.close, Len(new)) = SubSeq(old, ro.close, Len(old))
            /\ \A d \in Declarations(rootContent(old)) :
                  d.name \notin ThemeNames => d \in Declarations(rootContent(new))

\* The statements of main, each with the one that follows it.
MainOrder ==
    { << "findImages", "prompt" >>, << "prompt", "findCss" >>,
      << "findCss", "extract" >>, << "extract", "generate" >>,
      << "generate", "update" >>, << "update", "report" >>, << "report", "end" >> }

\* C19: main finds the images, has one selected, finds the stylesheet,
\* extracts the colours, generates the theme and updates the stylesheet, in
\* this order; the backup and the stylesheet are written only after all the
\* steps before the update succeeded; without a public folder, an image or
\* a stylesheet, or when the extraction fails, the process exits with
\* status 1 and neither file has been written.
C19_MainFlow ==
    /\ [][mainPc' # mainPc => << mainPc, mainPc' >> \in MainOrder]_vars
    /\ [][(globalsCss' # globalsCss \/ backupFile' # backupFile) =>
              /\ ugPc # "idle"
              /\ mainPc = "end"
              /\ pc = "returned"
              /\ Len(colors) > 0
              /\ colorVariables = theme]_vars
    /\ [](publicDir # "images" => mainPc = "findImages")
    /\ [](~globalsCss.exists => mainPc \in { "findImages", "prompt", "findCss" })
    /\ []((exited /\ ugPc = "idle") =>
              /\ exitCode = 1
              /\ mainPc \in { "findImages", "findCss", "extract" }
              /\ backupFile = NoFile
              /\ theme = NoTheme)

\* A run that went through every step and wrote both files.
C19_Witness ==
    /\ exited /\ exitCode = 0
    /\ mainPc = "end" /\ ugPc = "done"
    /\ Len(colors) = 3
    /\ backupFile.exists
    /\ globalsCss.content # backupFile.content

\* The place (1 = first) of member i of seq in the order by saturation
\* descending, equal saturations in the order of seq.
SaturationRank(seq, i) ==
    1 + Cardinality({ j \in 1..Len(seq) :
                        \/ seq[j].saturation > seq[i].saturation
                        \/ seq[j].saturation = seq[i].saturation /\ j < i })

\* The member of the working set ranked third by saturation.
ThirdBySaturation ==
    sortedColors[CHOOSE i \in 1..Len(sortedColors) : SaturationRank(sortedColors, i) = 3]

\* C21 (as stated): --secondary has the hue and saturation of the member of
\* the working set ranked third by saturation; in dark mode it is never
\* darker than that member, in light mode never lighter.
C21_Original ==
    (Returned /\ Len(Candidates) >= 1) =>
        /\ theme["--secondary"].h = ThirdBySaturation.hue * 360
        /\ theme["--secondary"].s = ThirdBySaturation.saturation * 100
        /\ IF isDarkTheme
           THEN theme["--secondary"].l >= ThirdBySaturation.lightness * 100
           ELSE theme["--secondary"].l <= ThirdBySaturation.lightness * 100

\* C21 (amended): --secondary is the member of the working set ranked third
\* by saturation with lightness min(0.8, l + 0.1) in dark mode and
\* max(0.2, l - 0.1) in light mode; it is not darker than the member in dark
\* mode when l <= 0.8, and not lighter in light mode when l >= 0.2.
C21_Secondary ==
    (Returned /\ Len(Candidates) >= 1) =>
        LET src == ThirdBySaturation
        IN  /\ theme["--secondary"] =
                  HslOf(src.hue, src.saturation,
                        IF isDarkTheme
                        THEN Min(Frac(8, 10), src.lightness + Frac(1, 10))
                        ELSE Max(Frac(2, 10), src.lightness - Frac(1, 10)))
            /\ (isDarkTheme /\ src.lightness <= Frac(8, 10)) =>
                  theme["--secondary"].l >= src.lightness * 100
            /\ (~isDarkTheme /\ src.lightness >= Frac(2, 10)) =>
                  theme["--secondary"].l <= src.lightness * 100

\* A light theme whose third member by saturation is darker than 0.2: the
\* secondary is lighter than the member.
C21_Witness ==
    /\ Returned
    /\ Len(Candidates) >= 1
    /\ ~isDarkTheme
    /\ ThirdBySaturation.lightness < Frac(2, 10)
    /\ theme["--secondary"].l = 20 * Scale
    /\ ThirdBySaturation # colorsBySaturation[1]

\* No valid candidate of the caller's list has a hue that is not finite.
FiniteHues == \A i \in 1..Len(Candidates) : ~Candidates[i].hueNotFinite

\* The member of the working set ranked first by saturation.
FirstBySaturation ==
    sortedColors[CHOOSE i \in 1..Len(sortedColors) : SaturationRank(sortedColors, i) = 1]

\* The hsl() value of a candidate as it is.
HslValue(color) == HslOf(color.hue, color.saturation, color.lightness)

C23_Original ==
    (Returned /\ Len(Candidates) >= 1 /\ FiniteHues) =>
        LET bg == theme["--background"]
            border == theme["--border"]
        IN  /\ border.h = bg.h
            /\ border.s = bg.s
            /\ Min(bg.l, 50 * Scale) <= border.l
            /\ border.l <= Max(bg.l, 50 * Scale)
            /\ IF isDarkTheme
               THEN bg.l <= border.l /\ border.l <= bg.l + 15 * Scale
               ELSE bg.l - 15 * Scale <= border.l /\ border.l <= bg.l

\* C23 (amended): --border has the hue and saturation of --background; its
\* lightness is min(50%, l + 15) in dark mode and max(50%, l - 15) in light
\* mode for the background's lightness l, so it lies between l and 50%; it
\* is 50% when the background is on the other side of 50% (lighter in dark
\* mode, darker in light mode).
C23_Border ==
    (Returned /\ Len(Candidates) >= 1 /\ FiniteHues) =>
        LET bg == theme["--background"]
            border == theme["--border"]
        IN  /\ border.h = bg.h
            /\ border.s = bg.s
            /\ border.l = IF isDarkTheme
                          THEN Min(50 * Scale, bg.l + 15 * Scale)
                          ELSE Max(50 * Scale, bg.l - 15 * Scale)
            /\ Min(bg.l, 50 * Scale) <= border.l
            /\ border.l <= Max(bg.l, 50 * Scale)

\* A light theme whose background is darker than 50%: the border is lighter
\* than the background.
C23_Witness ==
    /\ Returned
    /\ Len(Candidates) >= 1
    /\ ~isDarkTheme
    /\ theme["--background"].l < 50 * Scale
    /\ theme["--border"].l = 50 * Scale
    /\ theme["--border"].h = theme["--background"].h

\* C24: with k valid candidates, 1 <= k < 6, the slots n = k..5 of the
\* working set are copies of the candidate of largest area with hue
\* (hue + 0.1 n) mod 1 and lightness 0.3 + ((0.1 n) mod 0.7): the lightness
\* increases strictly with the slot, every copy differs from the base in
\* hue, and a second call fills the slots with the same values.
C24_Padding ==
    (Returned /\ Len(Candidates) \in 1..5 /\ FiniteHues) =>
        LET k == Len(Candidates)
            base == Dominant(Candidates)
            slot(n) == sortedColors[n + 1]
        IN  /\ Len(sortedColors) = 6
            /\ slot(0) = base
            /\ \A n \in k..5 :
                  /\ slot(n).hue = (base.hue + (n * Scale) \div 10) % Scale
                  /\ slot(n).lightness =
                        (3 * Scale) \div 10 + (((n * Scale) \div 10) % ((7 * Scale) \div 10))
                  /\ slot(n).hue # base.hue
                  /\ slot(n) = [ base EXCEPT !.hue = slot(n).hue,
                                             !.lightness = slot(n).lightness ]
                  /\ n > k => slot(n).lightness > slot(n - 1).lightness
            /\ prevTheme # NoTheme => SameColors(theme, prevTheme)

\* Two valid candidates and four copies of the larger, the last with
\* lightness 0.8, on a second call with another random draw.
C24_Witness ==
    /\ Returned
    /\ Len(Candidates) = 2
    /\ Len(colors) > 2
    /\ sortedColors[6].lightness = Frac(8, 10)
    /\ sortedColors[3].lightness = Frac(5, 10)
    /\ sortedColors[3].hue # sortedColors[1].hue
    /\ prevTheme # NoTheme
    /\ prevTheme["--radius"] # theme["--radius"]

\* The members of seq with luminance key K, in the order of seq.
WithSortKey(seq, K) == SelectSeq(seq, LAMBDA c : SortKey(c) = K)

\* The members of seq with saturation s, in the order of seq.
WithSaturation(seq, s) == SelectSeq(seq, LAMBDA c : c.saturation = s)

\* The caller passed six times the same valid candidate.
SixIdentical ==
    /\ Len(colors) = 6
    /\ Len(Candidates) = 6
    /\ \A i \in 1..6 : colors[i] = colors[1]

\* C25: the luminance sort and the saturation sort keep members of equal
\* key in the order of the working set; for six identical candidates a
\* theme is returned whose --background and --foreground are the same
\* colour, one with the lightness moved up and one with it moved down.
C25_TiesKeepOrder ==
    (Returned /\ Len(Candidates) >= 1 /\ FiniteHues) =>
        /\ \A i \in 1..6 :
              /\ WithSortKey(colorsByLuminance, SortKey(sortedColors[i])) =
                     WithSortKey(sortedColors, SortKey(sortedColors[i]))
              /\ WithSaturation(colorsBySaturation, sortedColors[i].saturation) =
                     WithSaturation(sortedColors, sortedColors[i].saturation)
        /\ SixIdentical =>
              /\ ColorKeys \subseteq DOMAIN theme
              /\ colorsByLuminance = colors
              /\ colorsBySaturation = colors
              /\ roles.bgColor = [ roles.fgColor EXCEPT !.lightness = roles.bgColor.lightness ]
              /\ IF isDarkTheme
                 THEN /\ theme["--background"] = NudgedDown(colors[1])
                      /\ theme["--foreground"] = NudgedUp(colors[1])
                 ELSE /\ theme["--background"] = NudgedUp(colors[1])
                      /\ theme["--foreground"] = NudgedDown(colors[1])

\* Six identical candidates: a theme whose background and foreground differ
\* in lightness only.
C25_Witness ==
    /\ Returned
    /\ SixIdentical
    /\ FiniteHues
    /\ theme["--background"].h = theme["--foreground"].h
    /\ theme["--background"].s = theme["--foreground"].s
    /\ theme["--background"].l # theme["--foreground"].l

\* C26 (as stated): the generateTheme that ranks by luminance returns a
\* theme with the 19 colour keys for every list that is not empty, lists of
\* 1 to 5 colours included.
C26_Original ==
    (pc # "input" /\ Len(colors) >= 1) =>
        /\ pc = "returned"
        /\ DOMAIN theme = ColorKeys

\* C27: in ensureContrast the contrast ratio computed in the loop is the
\* ratio computed before it, so the loop adjusts the colour 0 or exactly
\* maxAttempts = 20 times; when the ratio is below minContrast the returned
\* colour has lightness 5% for a background lighter than 0.5 and 95%
\* otherwise, and when it is not the colour is returned as it was.
C27_AllOrNothing ==
    LET initial == getContrastRatio(ecColor, ecBackground)
    IN  /\ ecPc \in { "loop", "done" } => contrast = initial
        /\ ecPc = "done" =>
              IF initial < ecMinContrast
              THEN /\ attempts = 20
                   /\ ecReturn.l = IF ecBackground.lightness > Frac(5, 10)
                                   THEN 5 * Scale ELSE 95 * Scale
                   /\ ecReturn.h = ecColor.hue * 360
                   /\ ecReturn.s = ecColor.saturation * 100
              ELSE /\ attempts = 0
                   /\ ecReturn = HslOf(ecColor.hue, ecColor.saturation, ecColor.lightness)

\* White text on a light background: 20 adjustments took it from 100% to 5%.
C27_Witness ==
    /\ ecPc = "done"
    /\ attempts = 20
    /\ ecColor.lightness = Scale
    /\ ecBackground.lightness > Frac(5, 10)
    /\ contrast < ecMinContrast
    /\ ecReturn.l = 5 * Scale

\* C28: for every input --accent-foreground equals --primary-foreground;
\* with a valid candidate the accent colour has the red, green and blue of
\* the primary colour, and black or white is chosen from them.
C28_AccentTextIsPrimaryText ==
    Returned =>
        /\ theme["--accent-foreground"] = theme["--primary-foreground"]
        /\ Len(Candidates) >= 1 =>
              /\ roles.accentColor.red = roles.primaryColor.red
              /\ roles.accentColor.green = roles.primaryColor.green
              /\ roles.accentColor.blue = roles.primaryColor.blue
              /\ theme["--accent-foreground"] = ReadableOn(roles.primaryColor)

\* A yellow primary colour: black text on the primary and on the accent,
\* whose hue is another.
C28_Witness ==
    /\ Returned
    /\ Len(Candidates) >= 1
    /\ theme["--accent"].h # theme["--primary"].h
    /\ theme["--primary-foreground"] = Black
    /\ theme["--accent-foreground"] = Black

\* C29 (as stated): "Theme updated successfully" is printed only after
\* updateGlobalsCss has written the stylesheet; it is never printed while
\* the write is pending, nor in a run in which updateGlobalsCss exits with
\* status 1.
C29_Original ==
    /\ successPrinted => ugPc \in { "sync", "done" }
    /\ (exited /\ exitCode = 1) => ~successPrinted

\* C30: after n >= 1 runs that updated the same stylesheet, the backup
\* holds the content the stylesheet had just before run n, the content that
\* run read; a run overwrites the backup of the run before, so from the
\* second run on the backup no longer holds the content from before the
\* first run but the result of run n - 1.
C30_BackupOfLastRun ==
    /\ [][(ugPc = "writeBackup" /\ ugPc' = "writeCss") =>
              /\ backupFile' = File(globalsCss.content)
              /\ globalsCss' = globalsCss]_vars
    /\ [][RunAgain => UNCHANGED << globalsCss, backupFile >>]_vars
    /\ []((ugPc = "done" /\ runs >= 1) =>
              /\ backupFile = File(cssContent)
              /\ runs = 1 => backupFile.content = firstContent
              /\ runs >= 2 =>
                    /\ backupFile.content # firstContent
                    /\ HasRootBlock(backupFile.content)
                    /\ \A name \in ThemeNames :
                          Declared(rootContent(backupFile.content), name) >= 1)

\* The second run is over: the backup is the stylesheet the first run wrote.
C30_Witness ==
    /\ ugPc = "done"
    /\ runs = 2
    /\ firstContent = ShadcnCss
    /\ backupFile.exists
    /\ backupFile.content # firstContent
    /\ globalsCss.content # backupFile.content

=============================================================================
